---- MODULE Spec2Model ----
(***************************************************************************)
(* Model of chinese_flashcard_app.py: the persisted record collection      *)
(* (character_data.csv), the spaced-repetition scheduler                   *)
(* (get_due_characters, build_review_table) and the Streamlit handlers     *)
(* that load the collection, change it and save it again.                  *)
(*                                                                         *)
(* Every Streamlit rerun executes the script top to bottom: TODAY is read, *)
(* load_data() is called, then the handler of the one widget that fired    *)
(* runs.  In Spec a rerun is one atomic action (single learner); in        *)
(* SpecConc two sessions interleave the load / increment / save steps.     *)
(***************************************************************************)
EXTENDS Integers, Sequences, FiniteSets

VARIABLES
    file,       \* character_data.csv: [exists, cols, rows] in CSV cell form
    TODAY,      \* datetime.date.today(), as a day number
    df,         \* the DataFrame held by the script at the end of the last rerun
    page,       \* what the last rerun did: the widget that fired and its outcome
    presses,    \* history: per persisted row, the Right/Wrong presses it received
    pc,         \* SpecConc: position of each session in load / increment / save
    mem,        \* SpecConc: the DataFrame each session holds
    target,     \* SpecConc: the row and counter each session increments
    order,      \* SpecConc: history of the loads and saves, oldest first
    start       \* SpecConc: the file before either session loaded it

vars == <<file, TODAY, df, page, presses, pc, mem, target, order, start>>

----------------------------------------------------------------------------
(* Bounds of the model. *)

MaxDay == 3          \* TODAY ranges over FirstDay..FirstDay + MaxDay
MaxLearn == 1        \* dates typed into the date inputs: FirstDay..FirstDay + MaxLearn
MaxPresses == 2      \* Right/Wrong presses received by the rows of the collection
MaxRecords == 2      \* rows in the collection
MaxSetNr == 1        \* set numbers typed into the number input: 1..MaxSetNr

(* Values of the cells. *)

NaN == 0 - 2         \* a missing number in a DataFrame (float nan)
NaT == 0 - 9999      \* a missing date in a DataFrame (pd.NaT)
NaNText == "nan"     \* a missing text in a DataFrame (float nan in an object column)
EmptyNum == 0 - 1    \* an empty numeric cell of the CSV file
EmptyDate == 0 - 1   \* an empty date cell of the CSV file
EmptyText == ""      \* an empty text cell of the CSV file

CHECK_MARK == "done"     \* the cell text U+2705
CROSS_MARK == "failed"   \* the cell text U+274C
DASHES == "--"

Glyphs == {"a", "b"}
StoredGlyphs == {"a"}
PinyinInputs == {"yi"}
ExampleInputs == {"ex"}
SetNrs == 1..MaxSetNr
Sessions == {1, 2}

REVIEW_STEPS == <<0, 1, 2, 4, 7, 15, 30, 90, 180>>

\* Dates are day numbers.  The first day of a behaviour is the day on which a
\* record learned on day 0 reaches the last step of the ladder, so that the
\* stored records can be at any step.
FirstDay == REVIEW_STEPS[Len(REVIEW_STEPS)]
LearnDays == FirstDay..(FirstDay + MaxLearn)

Columns == {"set_nr", "character", "pinyin", "example", "learned_date", "correct", "wrong"}
NumberColumns == {"set_nr", "correct", "wrong"}
TextColumns == {"character", "pinyin", "example"}

----------------------------------------------------------------------------
(* Sequence helpers. *)

Range(s) == {s[i] : i \in DOMAIN s}

RECURSIVE SelectIdx(_, _, _)
\* the elements of s at the positions in keep, in order (from position i on)
SelectIdx(s, keep, i) ==
    IF i > Len(s) THEN <<>>
    ELSE IF i \in keep THEN <<s[i]>> \o SelectIdx(s, keep, i + 1)
    ELSE SelectIdx(s, keep, i + 1)

----------------------------------------------------------------------------
(* CSV conversions. *)

\* pd.read_csv and pd.to_datetime(...).dt.date on one cell
ParseCell(col, v) ==
    IF col = "learned_date" THEN (IF v = EmptyDate THEN NaT ELSE v)
    ELSE IF col \in NumberColumns THEN (IF v = EmptyNum THEN NaN ELSE v)
    ELSE (IF v = EmptyText THEN NaNText ELSE v)

\* DataFrame.to_csv on one cell (na_rep is the empty string)
FormatCell(col, v) ==
    IF col = "learned_date" THEN (IF v = NaT THEN EmptyDate ELSE v)
    ELSE IF col \in NumberColumns THEN (IF v = NaN THEN EmptyNum ELSE v)
    ELSE (IF v = NaNText THEN EmptyText ELSE v)

EmptyFrame == [cols |-> Columns, rows |-> <<>>]

NoFile == [exists |-> FALSE, cols |-> {}, rows |-> <<>>]

read_csv(f) ==
    [cols |-> f.cols,
     rows |-> [i \in DOMAIN f.rows |-> [c \in f.cols |-> ParseCell(c, f.rows[i][c])]]]

\* the set_nr backfill of load_data
backfill_set_nr(d) ==
    IF "set_nr" \in d.cols THEN d
    ELSE [cols |-> d.cols \cup {"set_nr"},
          rows |-> [i \in DOMAIN d.rows |->
                      [c \in d.cols \cup {"set_nr"} |->
                          IF c = "set_nr" THEN 0 ELSE d.rows[i][c]]]]

\* the file between the open (with truncation) and the write of to_csv
EmptyFile == [exists |-> TRUE, cols |-> {}, rows |-> <<>>]

\* pd.read_csv raises EmptyDataError on a file of no bytes; load_data catches
\* FileNotFoundError only
LoadRaises(f) == f = EmptyFile

\* the DataFrame load_data returns (when it does not raise)
load_data(f) ==
    IF f.exists THEN backfill_set_nr(read_csv(f)) ELSE EmptyFrame

save_data(d) ==
    [exists |-> TRUE,
     cols |-> d.cols,
     rows |-> [i \in DOMAIN d.rows |-> [c \in d.cols |-> FormatCell(c, d.rows[i][c])]]]

----------------------------------------------------------------------------
(* The scheduler. *)

\* the inner loop of get_due_characters: some step puts the due date on today
StepMatches(learned, today) ==
    \E k \in DOMAIN REVIEW_STEPS : learned + REVIEW_STEPS[k] = today

\* the glyphs collected in due_today
due_today(d, today) ==
    {d.rows[i]["character"] : i \in {j \in DOMAIN d.rows :
        /\ d.rows[j]["learned_date"] # NaT
        /\ StepMatches(d.rows[j]["learned_date"], today)}}

\* the index labels of df[df["character"].isin(due_today)]
get_due_characters(d, today) ==
    {i \in DOMAIN d.rows : d.rows[i]["character"] \in due_today(d, today)}

\* a counter compared with zero: nan > 0 is False
Positive(v) == v # NaN /\ v > 0

\* ReviewCell with <= in place of < in the test that leads to the check mark
ReviewCell_today_done(row, day, today) ==
    LET review_date == row["learned_date"] + day
    IN  IF day = 1
        THEN (IF Positive(row["correct"]) \/ Positive(row["wrong"])
              THEN CHECK_MARK ELSE DASHES)
        ELSE IF review_date <= today
        THEN (IF Positive(row["correct"]) \/ Positive(row["wrong"])
              THEN CHECK_MARK ELSE CROSS_MARK)
        ELSE DASHES

\* one cell of the review table, for ladder step day
ReviewCell(row, day, today) ==
    LET review_date == row["learned_date"] + day
    IN  IF day = 1
        THEN (IF Positive(row["correct"]) \/ Positive(row["wrong"])
              THEN CHECK_MARK ELSE DASHES)
        ELSE IF review_date < today
        THEN (IF Positive(row["correct"]) \/ Positive(row["wrong"])
              THEN CHECK_MARK ELSE CROSS_MARK)
        ELSE IF review_date = today THEN CROSS_MARK
        ELSE DASHES

\* build_review_table raises on a row that has no date (NaT.strftime), on a
\* row without the correct column (row["correct"] in the Day-1 test) and on a
\* row without the wrong column whose correct counter is not positive (the
\* right operand of "or" is read only then)
TableRaises(d) ==
    \E i \in DOMAIN d.rows :
        \/ d.rows[i]["learned_date"] = NaT
        \/ "correct" \notin d.cols
        \/ ~ Positive(d.rows[i]["correct"]) /\ "wrong" \notin d.cols

build_review_table(d, today) ==
    [i \in DOMAIN d.rows |->
        [set_nr |-> d.rows[i]["set_nr"],
         character |-> d.rows[i]["character"],
         learned_date |-> d.rows[i]["learned_date"],
         correct |-> IF "correct" \in d.cols THEN d.rows[i]["correct"] ELSE 0,
         wrong |-> IF "wrong" \in d.cols THEN d.rows[i]["wrong"] ELSE 0,
         cells |-> [k \in 2..Len(REVIEW_STEPS) |->
                      [day |-> REVIEW_STEPS[k],
                       date |-> d.rows[i]["learned_date"] + REVIEW_STEPS[k],
                       mark |-> ReviewCell(d.rows[i], REVIEW_STEPS[k], today)]]]]

\* df[df["set_nr"] == s]
FilterSet(d, s) ==
    [cols |-> d.cols,
     rows |-> SelectIdx(d.rows, {i \in DOMAIN d.rows : d.rows[i]["set_nr"] = s}, 1)]

----------------------------------------------------------------------------
(* DataFrame operations used by the handlers. *)

\* the value pandas fills in for a column a row does not have
PadValue(col) ==
    IF col \in NumberColumns THEN NaN
    ELSE IF col = "learned_date" THEN NaT
    ELSE NaNText

\* df.append(rec, ignore_index=True): the union of the columns, missing cells padded
append(d, rec) ==
    LET cs == d.cols \cup DOMAIN rec
        pad(r) == [c \in cs |-> IF c \in DOMAIN r THEN r[c] ELSE PadValue(c)]
    IN  [cols |-> cs,
         rows |-> [i \in DOMAIN d.rows |-> pad(d.rows[i])] \o <<pad(rec)>>]

\* the record both add-character forms build
NewRecord(set_nr, char, pinyin, example, learned) ==
    [c \in Columns |->
        CASE c = "set_nr" -> set_nr
          [] c = "character" -> char
          [] c = "pinyin" -> pinyin
          [] c = "example" -> example
          [] c = "learned_date" -> learned
          [] c = "correct" -> 0
          [] c = "wrong" -> 0]

\* Increment with the counter reset before the addition (the assignment the
\* source has commented out in front of += 1)
Increment_reset(d, idx, col) ==
    [d EXCEPT !.rows[idx][col] = 0 + 1]

\* df.at[idx, col] += 1 (nan + 1 is nan)
Increment(d, idx, col) ==
    [d EXCEPT !.rows[idx][col] = IF @ = NaN THEN NaN ELSE @ + 1]

\* df.drop(idx)
drop(d, idx) ==
    [d EXCEPT !.rows = SelectIdx(d.rows, DOMAIN d.rows \ {idx}, 1)]

\* DropSet with > in place of !=
DropSet_above(d, s) ==
    [d EXCEPT !.rows = SelectIdx(d.rows, {i \in DOMAIN d.rows : d.rows[i]["set_nr"] > s}, 1)]

\* df[df["set_nr"] != s]
DropSet(d, s) ==
    [d EXCEPT !.rows = SelectIdx(d.rows, {i \in DOMAIN d.rows : d.rows[i]["set_nr"] # s}, 1)]

\* df.loc[df["set_nr"] == s, "learned_date"] = date
SetLearnedDate(d, s, date) ==
    [d EXCEPT !.rows = [i \in DOMAIN d.rows |->
        IF d.rows[i]["set_nr"] = s
        THEN [d.rows[i] EXCEPT !["learned_date"] = date]
        ELSE d.rows[i]]]

\* df.at[idx, "pinyin"] = ..., df.at[idx, "example"] = ...
SetTexts(d, idx, pinyin, example) ==
    [d EXCEPT !.rows[idx] = [@ EXCEPT !["pinyin"] = pinyin, !["example"] = example]]

\* what st.selectbox returns when it has no option
None == 0 - 1

\* df["set_nr"].unique()
set_options(d) == {d.rows[i]["set_nr"] : i \in DOMAIN d.rows}

\* the Edit Set page renders only when every row of the chosen set has a date:
\* learned_date.min() and st.date_input(value=...) come before every button
EditPageRenders(d, s) ==
    /\ s \in set_options(d)
    /\ \A i \in DOMAIN d.rows : d.rows[i]["set_nr"] = s => d.rows[i]["learned_date"] # NaT

\* the Flashcard page shows row["correct"] and row["wrong"] on every due card
CardsRender(d) == {"correct", "wrong"} \subseteq d.cols

----------------------------------------------------------------------------
(* History bookkeeping (not program state). *)

NoPage == [op |-> "none", idx |-> 0, set |-> 0, char |-> "", saved |-> FALSE,
           raised |-> FALSE, due |-> {}, table |-> <<>>]

FreshPresses == [zero |-> TRUE, right |-> 0, wrong |-> 0]

RECURSIVE TotalPresses(_)
TotalPresses(ps) ==
    IF ps = <<>> THEN 0 ELSE Head(ps).right + Head(ps).wrong + TotalPresses(Tail(ps))

InitPresses(f) ==
    [i \in DOMAIN f.rows |->
        [zero |-> /\ {"correct", "wrong"} \subseteq f.cols
                  /\ f.rows[i]["correct"] = 0
                  /\ f.rows[i]["wrong"] = 0,
         right |-> 0, wrong |-> 0]]

ConcIdle ==
    /\ pc = [s \in Sessions |-> "idle"]
    /\ mem = [s \in Sessions |-> EmptyFrame]
    /\ target = [s \in Sessions |-> [idx |-> 0, col |-> "correct"]]
    /\ order = <<>>
    /\ start = NoFile

----------------------------------------------------------------------------
(* Initial states: no file yet, or a file written by this or an earlier    *)
(* version of the app (load_data expects files without set_nr, and         *)
(* build_review_table expects files without correct / wrong).              *)

MaxInitRecords == 1

StoredColumnSets ==
    {Columns, Columns \ {"set_nr"}, Columns \ {"correct", "wrong"}, Columns \ {"wrong"}}

\* The counters of a stored row are 0 where the Flashcard page can raise them;
\* a file without the wrong column shows no card (CardsRender), so its correct
\* counter is stored at 0 or already positive.
StoredCorrect(cols) == IF "wrong" \in cols THEN {0} ELSE {0, 1}

StoredRows(cols) ==
    {[c \in cols |->
        CASE c = "set_nr" -> 1
          [] c = "character" -> g
          [] c = "pinyin" -> EmptyText
          [] c = "example" -> EmptyText
          [] c = "learned_date" -> l
          [] c = "correct" -> k
          [] c = "wrong" -> 0] :
        g \in StoredGlyphs, l \in {EmptyDate, 0, FirstDay}, k \in StoredCorrect(cols)}

RECURSIVE SeqsUpTo(_, _)
SeqsUpTo(S, n) ==
    IF n = 0 THEN {<<>>}
    ELSE LET shorter == SeqsUpTo(S, n - 1)
         IN  shorter \cup {Append(q, x) : q \in {r \in shorter : Len(r) = n - 1}, x \in S}

StoredFiles ==
    {NoFile} \cup
    UNION {{[exists |-> TRUE, cols |-> cs, rows |-> rs] :
              rs \in SeqsUpTo(StoredRows(cs), MaxInitRecords)} : cs \in StoredColumnSets}

Init ==
    /\ file \in StoredFiles
    /\ TODAY = FirstDay
    /\ df = EmptyFrame
    /\ page = NoPage
    /\ presses = InitPresses(file)
    /\ ConcIdle

----------------------------------------------------------------------------
(* The handlers: one action per rerun of the script.  cur is the DataFrame *)
(* load_data() returns at the top of the rerun.                            *)

cur == load_data(file)

Conc == <<pc, mem, target, order, start>>

\* NewSet without the test of new_char
NewSet_unchecked(new_set_nr, new_set_date, new_char, new_pinyin, new_example) ==
    /\ Len(cur.rows) < MaxRecords
    /\ LET d == append(cur, NewRecord(new_set_nr, new_char, new_pinyin,
                                      new_example, new_set_date))
       IN  /\ df' = d
           /\ file' = save_data(d)
           /\ presses' = Append(presses, FreshPresses)
           /\ page' = [NoPage EXCEPT !.op = "NewSet", !.set = new_set_nr,
                                     !.char = new_char, !.saved = TRUE]
    /\ UNCHANGED <<TODAY, Conc>>

\* "New Set" form, "Add Character to New Set"
NewSet(new_set_nr, new_set_date, new_char, new_pinyin, new_example) ==
    /\ new_char # "" => Len(cur.rows) < MaxRecords
    /\ IF new_char # ""
       THEN LET d == append(cur, NewRecord(new_set_nr, new_char, new_pinyin,
                                           new_example, new_set_date))
            IN  /\ df' = d
                /\ file' = save_data(d)
                /\ presses' = Append(presses, FreshPresses)
                /\ page' = [NoPage EXCEPT !.op = "NewSet", !.set = new_set_nr,
                                          !.char = new_char, !.saved = TRUE]
       ELSE /\ df' = cur
            /\ page' = [NoPage EXCEPT !.op = "NewSet", !.set = new_set_nr]
            /\ UNCHANGED <<file, presses>>
    /\ UNCHANGED <<TODAY, Conc>>

\* "Edit Set" page, "Update Set Date"
UpdateSetDate(set_to_edit, new_set_date) ==
    /\ EditPageRenders(cur, set_to_edit)
    /\ LET d == SetLearnedDate(cur, set_to_edit, new_set_date)
       IN  /\ df' = d
           /\ file' = save_data(d)
    /\ page' = [NoPage EXCEPT !.op = "UpdateSetDate", !.set = set_to_edit, !.saved = TRUE]
    /\ UNCHANGED <<TODAY, presses, Conc>>

\* "Edit Set" page, "Save <character>"
SaveCharacter(idx, new_pinyin, new_example) ==
    /\ idx \in DOMAIN cur.rows
    /\ EditPageRenders(cur, cur.rows[idx]["set_nr"])
    /\ LET d == SetTexts(cur, idx, new_pinyin, new_example)
       IN  /\ df' = d
           /\ file' = save_data(d)
    /\ page' = [NoPage EXCEPT !.op = "SaveCharacter", !.idx = idx,
                              !.set = cur.rows[idx]["set_nr"], !.saved = TRUE]
    /\ UNCHANGED <<TODAY, presses, Conc>>

\* "Edit Set" page, "Delete <character>" with the confirmation ticked; ends in a rerun
DeleteCharacter(idx) ==
    /\ idx \in DOMAIN cur.rows
    /\ EditPageRenders(cur, cur.rows[idx]["set_nr"])
    /\ file' = save_data(drop(cur, idx))
    /\ df' = load_data(file')
    /\ presses' = SelectIdx(presses, DOMAIN presses \ {idx}, 1)
    /\ page' = [NoPage EXCEPT !.op = "DeleteCharacter", !.idx = idx,
                              !.set = cur.rows[idx]["set_nr"], !.saved = TRUE]
    /\ UNCHANGED <<TODAY, Conc>>

\* "Edit Set" page, "Add Character" form; a successful add ends in a rerun
AddCharacter(set_to_edit, new_set_date, add_char, add_pinyin, add_example) ==
    /\ EditPageRenders(cur, set_to_edit)
    /\ add_char # "" => Len(cur.rows) < MaxRecords
    /\ IF add_char # ""
       THEN /\ file' = save_data(append(cur, NewRecord(set_to_edit, add_char, add_pinyin,
                                                       add_example, new_set_date)))
            /\ df' = load_data(file')
            /\ presses' = Append(presses, FreshPresses)
            /\ page' = [NoPage EXCEPT !.op = "AddCharacter", !.set = set_to_edit,
                                      !.char = add_char, !.saved = TRUE]
       ELSE /\ df' = cur
            /\ page' = [NoPage EXCEPT !.op = "AddCharacter", !.set = set_to_edit]
            /\ UNCHANGED <<file, presses>>
    /\ UNCHANGED <<TODAY, Conc>>

\* "Delete Set" page, "Confirm Delete Set" with the confirmation ticked; ends in a
\* rerun.  With an empty collection the select box has no option and returns
\* None; the button is still there and the press saves the empty collection.
DeleteSet(set_to_delete) ==
    /\ \/ set_to_delete \in set_options(cur)
       \/ set_options(cur) = {} /\ set_to_delete = None
    /\ file' = save_data(DropSet(cur, set_to_delete))
    /\ df' = load_data(file')
    /\ presses' = SelectIdx(presses,
                      {i \in DOMAIN cur.rows : cur.rows[i]["set_nr"] # set_to_delete}, 1)
    /\ page' = [NoPage EXCEPT !.op = "DeleteSet", !.set = set_to_delete, !.saved = TRUE]
    /\ UNCHANGED <<TODAY, Conc>>

\* "Flashcard" page without a press: the cards of get_due_characters are shown
Flashcard ==
    /\ df' = cur
    /\ page' = [NoPage EXCEPT !.op = "Flashcard",
                              !.due = get_due_characters(cur, TODAY),
                              !.raised = /\ get_due_characters(cur, TODAY) # {}
                                         /\ ~ CardsRender(cur)]
    /\ UNCHANGED <<file, TODAY, presses, Conc>>

\* "Flashcard" page, a Right or Wrong button of the card of row idx; ends in a rerun
Press(idx, col) ==
    /\ idx \in get_due_characters(cur, TODAY)
    /\ CardsRender(cur)
    /\ TotalPresses(presses) < MaxPresses
    /\ file' = save_data(Increment(cur, idx, col))
    /\ df' = load_data(file')
    /\ presses' = [presses EXCEPT ![idx][IF col = "correct" THEN "right" ELSE "wrong"] = @ + 1]
    /\ page' = [NoPage EXCEPT !.op = IF col = "correct" THEN "Right" ELSE "Wrong",
                              !.idx = idx, !.saved = TRUE,
                              !.due = get_due_characters(df', TODAY)]
    /\ UNCHANGED <<TODAY, Conc>>

Right(idx) == Press(idx, "correct")

Wrong(idx) == Press(idx, "wrong")

\* "Dashboard" page: the review plan of the chosen set is shown, then the list
\* of the frequently wrong characters reads df["wrong"].  With an empty
\* collection the select box has no option and returns None: the table is
\* empty and the list is still computed.
Dashboard(selected_set) ==
    /\ \/ selected_set \in set_options(cur)
       \/ set_options(cur) = {} /\ selected_set = None
    /\ df' = cur
    /\ page' = [NoPage EXCEPT !.op = "Dashboard", !.set = selected_set,
                   !.raised = \/ TableRaises(FilterSet(cur, selected_set))
                              \/ "wrong" \notin cur.cols,
                   !.table = IF TableRaises(FilterSet(cur, selected_set)) THEN <<>>
                             ELSE build_review_table(FilterSet(cur, selected_set), TODAY)]
    /\ UNCHANGED <<file, TODAY, presses, Conc>>

\* the calendar moves on; the next rerun reads the new date
Midnight ==
    /\ TODAY < FirstDay + MaxDay
    /\ TODAY' = TODAY + 1
    /\ page' = [NoPage EXCEPT !.op = "Midnight"]
    /\ UNCHANGED <<file, df, presses, Conc>>

Next ==
    \/ \E s \in SetNrs, l \in LearnDays, g \in Glyphs \cup {""},
          p \in PinyinInputs, e \in ExampleInputs : NewSet(s, l, g, p, e)
    \/ \E s \in 0..MaxSetNr, l \in LearnDays : UpdateSetDate(s, l)
    \/ \E i \in 1..MaxRecords, p \in PinyinInputs, e \in ExampleInputs : SaveCharacter(i, p, e)
    \/ \E i \in 1..MaxRecords : DeleteCharacter(i)
    \/ \E s \in 0..MaxSetNr, l \in LearnDays, g \in Glyphs \cup {""},
          p \in PinyinInputs, e \in ExampleInputs : AddCharacter(s, l, g, p, e)
    \/ \E s \in {None} \cup 0..MaxSetNr : DeleteSet(s)
    \/ Flashcard
    \/ \E i \in 1..MaxRecords : Right(i)
    \/ \E i \in 1..MaxRecords : Wrong(i)
    \/ \E s \in {None} \cup 0..MaxSetNr : Dashboard(s)
    \/ Midnight

Spec == Init /\ [][Next]_vars

----------------------------------------------------------------------------
(* Two sessions on the same storage.  Each session runs the script once:   *)
(* load_data(), the increment of a pressed card, save_data() in its two    *)
(* halves (open with truncation, write and close).  The script threads of  *)
(* two sessions interleave between these steps; nothing locks the file.    *)

MaxConcRecords == 2

ConcRows ==
    {NewRecord(1, g, "yi", "ex", l) : g \in Glyphs, l \in LearnDays}

ConcFiles ==
    {save_data([cols |-> Columns, rows |-> rs]) :
        rs \in SeqsUpTo(ConcRows, MaxConcRecords) \ {<<>>}}

InitConc ==
    /\ file \in ConcFiles
    /\ start = file
    /\ TODAY = FirstDay
    /\ df = EmptyFrame
    /\ page = NoPage
    /\ presses = InitPresses(file)
    /\ pc = [s \in Sessions |-> "idle"]
    /\ mem = [s \in Sessions |-> EmptyFrame]
    /\ target = [s \in Sessions |-> [idx |-> 0, col |-> "correct"]]
    /\ order = <<>>

Single == <<TODAY, df, page, presses, start>>

\* CLoad behind a cache that keeps the first file read
CLoad_cached(s) ==
    /\ pc[s] = "idle"
    /\ IF LoadRaises(file)
       THEN /\ pc' = [pc EXCEPT ![s] = "failed"]
            /\ order' = Append(order, [ev |-> "error", s |-> s])
            /\ UNCHANGED mem
       ELSE /\ mem' = [mem EXCEPT ![s] = load_data(start)]
            /\ pc' = [pc EXCEPT ![s] = "loaded"]
            /\ order' = Append(order, [ev |-> "load", s |-> s])
    /\ UNCHANGED <<file, target, Single>>

\* df = load_data() at the top of the script; the run ends with the exception
\* when the file is inside another session's save
CLoad(s) ==
    /\ pc[s] = "idle"
    /\ IF LoadRaises(file)
       THEN /\ pc' = [pc EXCEPT ![s] = "failed"]
            /\ order' = Append(order, [ev |-> "error", s |-> s])
            /\ UNCHANGED mem
       ELSE /\ mem' = [mem EXCEPT ![s] = load_data(file)]
            /\ pc' = [pc EXCEPT ![s] = "loaded"]
            /\ order' = Append(order, [ev |-> "load", s |-> s])
    /\ UNCHANGED <<file, target, Single>>

\* df.at[idx, col] += 1 in the handler of a Right or Wrong button
CIncrement(s, idx, col) ==
    /\ pc[s] = "loaded"
    /\ idx \in get_due_characters(mem[s], TODAY)
    /\ CardsRender(mem[s])
    /\ mem' = [mem EXCEPT ![s] = Increment(mem[s], idx, col)]
    /\ target' = [target EXCEPT ![s] = [idx |-> idx, col |-> col]]
    /\ pc' = [pc EXCEPT ![s] = "incremented"]
    /\ UNCHANGED <<file, order, Single>>

\* save_data(df), first half: to_csv opens the file for writing, which
\* truncates it; nothing locks the file
CSaveOpen(s) ==
    /\ pc[s] = "incremented"
    /\ file' = EmptyFile
    /\ pc' = [pc EXCEPT ![s] = "writing"]
    /\ order' = Append(order, [ev |-> "open", s |-> s])
    /\ UNCHANGED <<mem, target, Single>>

\* save_data(df), second half: the rows are written from the start of the file
\* and the file is closed.  A collection of the size modelled is below the
\* stream buffer and reaches the file in one write.
CSave(s) ==
    /\ pc[s] = "writing"
    /\ file' = save_data(mem[s])
    /\ pc' = [pc EXCEPT ![s] = "saved"]
    /\ order' = Append(order, [ev |-> "save", s |-> s])
    /\ UNCHANGED <<mem, target, Single>>

NextConc ==
    \/ \E s \in Sessions : CLoad(s)
    \/ \E s \in Sessions, i \in 1..MaxConcRecords, c \in {"correct", "wrong"} :
          CIncrement(s, i, c)
    \/ \E s \in Sessions : CSaveOpen(s)
    \/ \E s \in Sessions : CSave(s)

SpecConc == InitConc /\ [][NextConc]_vars

----------------------------------------------------------------------------
(* Delete Set applied to stored collections of several sets. *)

MaxDeleteRecords == 3
MaxDeleteSetNr == 2

DeleteRows ==
    {[NewRecord(s, g, "yi", "ex", FirstDay) EXCEPT !["correct"] = c] :
        s \in 1..MaxDeleteSetNr, g \in Glyphs, c \in {0, 1}}

DeleteFiles ==
    {save_data([cols |-> Columns, rows |-> rs]) :
        rs \in SeqsUpTo(DeleteRows, MaxDeleteRecords)}
    \cup {f \in StoredFiles : f.exists}

InitDelete ==
    /\ file \in DeleteFiles
    /\ TODAY = FirstDay
    /\ df = EmptyFrame
    /\ page = NoPage
    /\ presses = InitPresses(file)
    /\ ConcIdle

NextDelete == \E s \in {None} \cup 0..MaxDeleteSetNr : DeleteSet(s)

SpecDelete == InitDelete /\ [][NextDelete]_vars

----------------------------------------------------------------------------
(* Properties. *)

LadderOffsets == Range(REVIEW_STEPS)

\* a DataFrame row is on a ladder day today
OnLadder(row, today) ==
    /\ row["learned_date"] # NaT
    /\ (today - row["learned_date"]) \in LadderOffsets

\* a stored row is on a ladder day today
StoredOnLadder(row, today) ==
    /\ row["learned_date"] # EmptyDate
    /\ (today - row["learned_date"]) \in LadderOffsets

\* Some counter of the row records an interaction.
Interacted(row) == Positive(row["correct"]) \/ Positive(row["wrong"])

\* C1 (as stated): the Flashcard page shows a record that has a learned_date
\* exactly when today minus its learned_date is a ladder offset, whatever
\* the other records are.
CexC1 ==
    page.op = "Flashcard" =>
        \A i \in DOMAIN df.rows :
            df.rows[i]["learned_date"] # NaT =>
                (i \in page.due <=> (TODAY - df.rows[i]["learned_date"]) \in LadderOffsets)

\* C2 (as stated): a record without learned_date is never among the cards of
\* the Flashcard page.
CexC2 ==
    page.op = "Flashcard" =>
        \A i \in DOMAIN df.rows :
            df.rows[i]["learned_date"] = NaT => i \notin page.due

\* C3: a record that started with correct = 0 and wrong = 0 has, in the saved
\* file, correct = the number of Right presses and wrong = the number of Wrong
\* presses it received.
ThmC3 ==
    \A i \in DOMAIN file.rows :
        presses[i].zero =>
            /\ {"correct", "wrong"} \subseteq file.cols
            /\ file.rows[i]["correct"] = presses[i].right
            /\ file.rows[i]["wrong"] = presses[i].wrong

\* C3 witness: a record that started at zero and received both kinds of press.
WitC3 ==
    \E i \in DOMAIN file.rows :
        presses[i].zero /\ presses[i].right >= 1 /\ presses[i].wrong >= 1

\* the three rules of C4 for one cell, with the completed and pending-failed
\* rules applying up to and including today
ClaimedCell(row, cell) ==
    /\ (cell.date <= TODAY /\ (row.correct > 0 \/ row.wrong > 0)) => cell.mark = CHECK_MARK
    /\ (cell.date <= TODAY /\ row.correct = 0 /\ row.wrong = 0) => cell.mark = CROSS_MARK
    /\ cell.date > TODAY => cell.mark = DASHES

\* the row a Right press has just incremented from zero counters
FirstRight ==
    /\ page.op = "Right"
    /\ presses[page.idx] = [zero |-> TRUE, right |-> 1, wrong |-> 0]
    /\ df.rows[page.idx]["learned_date"] # NaT

\* C4 (as stated): every cell of the review table for a step d > 1 is
\* completed when its date is today or earlier and a counter is positive,
\* pending-failed when its date is today or earlier and both counters are
\* zero, not-yet-due when its date is later than today; after one Right press
\* on a record with zero counters the Day-1 cell and every cell dated today or
\* earlier are completed.
CexC4 ==
    /\ page.op = "Dashboard" =>
           \A i \in DOMAIN page.table : \A k \in DOMAIN page.table[i].cells :
               page.table[i].cells[k].day > 1 =>
                   ClaimedCell(page.table[i], page.table[i].cells[k])
    /\ FirstRight =>
           /\ ReviewCell(df.rows[page.idx], 1, TODAY) = CHECK_MARK
           /\ \A k \in 2..Len(REVIEW_STEPS) :
                  df.rows[page.idx]["learned_date"] + REVIEW_STEPS[k] <= TODAY =>
                      ReviewCell(df.rows[page.idx], REVIEW_STEPS[k], TODAY) = CHECK_MARK

\* the rules the table follows: a cell dated today is pending-failed whatever
\* the counters are
AmendedCell(row, cell) ==
    /\ (cell.date < TODAY /\ (row.correct > 0 \/ row.wrong > 0)) => cell.mark = CHECK_MARK
    /\ (cell.date < TODAY /\ ~ (row.correct > 0 \/ row.wrong > 0)) => cell.mark = CROSS_MARK
    /\ cell.date = TODAY => cell.mark = CROSS_MARK
    /\ cell.date > TODAY => cell.mark = DASHES

\* C4 (amended): every cell for a step d > 1 is completed when its date is
\* before today and a counter is positive, pending-failed when its date is
\* before today and no counter is positive or when its date is today,
\* not-yet-due when its date is later than today; after one Right press on a
\* record with zero counters the Day-1 cell and every cell dated before today
\* are completed and the cell dated today is pending-failed.
ThmC4 ==
    /\ page.op = "Dashboard" =>
           \A i \in DOMAIN page.table : \A k \in DOMAIN page.table[i].cells :
               page.table[i].cells[k].day > 1 =>
                   AmendedCell(page.table[i], page.table[i].cells[k])
    /\ FirstRight =>
           /\ ReviewCell(df.rows[page.idx], 1, TODAY) = CHECK_MARK
           /\ \A k \in 2..Len(REVIEW_STEPS) :
                  LET review_date == df.rows[page.idx]["learned_date"] + REVIEW_STEPS[k]
                      mark == ReviewCell(df.rows[page.idx], REVIEW_STEPS[k], TODAY)
                  IN  /\ review_date < TODAY => mark = CHECK_MARK
                      /\ review_date = TODAY => (REVIEW_STEPS[k] > 1 => mark = CROSS_MARK)

\* C4 witness: the table shows a record with an interaction that has a cell
\* dated today and a cell dated before today, both for steps after Day 1.
WitC4 ==
    /\ page.op = "Dashboard"
    /\ \E i \in DOMAIN page.table :
           /\ page.table[i].correct > 0
           /\ \E k \in DOMAIN page.table[i].cells :
                  page.table[i].cells[k].day > 1 /\ page.table[i].cells[k].date = TODAY
           /\ \E k \in DOMAIN page.table[i].cells :
                  page.table[i].cells[k].day > 1 /\ page.table[i].cells[k].date < TODAY

\* the set number a stored row belongs to (0 when the file has no set_nr column)
StoredSetNr(f, i) == IF "set_nr" \in f.cols THEN f.rows[i]["set_nr"] ELSE 0

\* C5: Delete Set for set s leaves in the file exactly the records whose
\* set_nr differs from s, with their fields and their order.
ThmC5 ==
    [][page'.op = "DeleteSet" =>
          file'.rows = SelectIdx(file.rows,
                           {i \in DOMAIN file.rows : StoredSetNr(file, i) # page'.set}, 1)]_vars

\* C5 witness: a set was deleted and two records of other sets remain.
WitC5 == page.op = "DeleteSet" /\ Len(file.rows) >= 2

\* C6: a submission of either add-character form with an empty glyph appends
\* nothing: the DataFrame is the loaded one, save_data is not called and the
\* file is as before.
ThmC6 ==
    [][(page'.op \in {"NewSet", "AddCharacter"} /\ page'.char = "") =>
          /\ file' = file
          /\ df' = load_data(file)
          /\ ~ page'.saved]_vars

\* C6 witness: an empty glyph was submitted to a collection that has records.
WitC6 ==
    /\ page.op \in {"NewSet", "AddCharacter"}
    /\ page.char = ""
    /\ file.exists
    /\ file.rows # <<>>

\* C7 (as stated): the DataFrame load_data returns has each of set_nr, correct
\* and wrong, with value 0 in every record when the file lacks the column, and
\* is empty when there is no file.
CexC7 ==
    page.op = "Flashcard" =>
        /\ \A c \in {"set_nr", "correct", "wrong"} :
               /\ c \in df.cols
               /\ c \notin file.cols => \A i \in DOMAIN df.rows : df.rows[i][c] = 0
        /\ ~ file.exists => df.rows = <<>>

\* C8 (as stated): a Right or Wrong press adds 1 to the pressed counter of the
\* pressed record and changes no other field of any record of the persisted
\* collection (read with load_data before and after the press).
CexC8 ==
    [][page'.op \in {"Right", "Wrong"} =>
          LET before == load_data(file)
              after == load_data(file')
              col == IF page'.op = "Right" THEN "correct" ELSE "wrong"
          IN  /\ after.cols = before.cols
              /\ before.rows[page'.idx][col] # NaN
              /\ after.rows = [before.rows EXCEPT ![page'.idx][col] = @ + 1]]_vars

\* SpecConc: both sessions have saved
BothSaved == \A s \in Sessions : pc[s] = "saved"

\* SpecConc: the position of an event in the history
Pos(ev, s) == CHOOSE k \in DOMAIN order : order[k] = [ev |-> ev, s |-> s]

\* C9: after both saves the file is the DataFrame of the session that saved
\* last; the other session's increment is in the file if the last saver
\* loaded after the other session's save, and is not otherwise.
ThmC9 ==
    BothSaved =>
        LET l == order[Len(order)].s
            o == CHOOSE s \in Sessions : s # l
            t == target[o]
            own == IF target[l] = t THEN 1 ELSE 0
        IN  /\ file = save_data(mem[l])
            /\ Pos("load", l) > Pos("save", o) =>
                   file.rows[t.idx][t.col] = start.rows[t.idx][t.col] + 1 + own
            /\ Pos("load", l) < Pos("save", o) =>
                   file.rows[t.idx][t.col] = start.rows[t.idx][t.col] + own

\* C9 witness: both sessions saved, the last saver had loaded before the other
\* session's save, and the two increments were on different counters.
WitC9 ==
    /\ BothSaved
    /\ target[1] # target[2]
    /\ LET l == order[Len(order)].s
           o == CHOOSE s \in Sessions : s # l
       IN  Pos("load", l) < Pos("save", o)

\* C10 (as stated): in every step, a counter of a record changes only if
\* today is the record's learned_date plus a ladder offset.
CexC10 ==
    [][\A i \in DOMAIN file.rows :
          (/\ Len(file'.rows) = Len(file.rows)
           /\ {"correct", "wrong"} \subseteq file.cols
           /\ {"correct", "wrong"} \subseteq file'.cols
           /\ \/ file'.rows[i]["correct"] # file.rows[i]["correct"]
              \/ file'.rows[i]["wrong"] # file.rows[i]["wrong"])
          => StoredOnLadder(file.rows[i], TODAY)]_vars

====
